---- MODULE Spec2Model ----
(***************************************************************************)
(* Count-Min Sketch (src/src/count_min_sketch.rs) as a state machine.      *)
(*                                                                         *)
(* The sketch is a depth x width matrix of u64 cells, one RandomState per  *)
(* row and a usize store counter.  Cells are 64 bits wide in the code; the *)
(* model keeps the same arithmetic (saturating add on cells, plain `+= 1`  *)
(* on the counter) at a reduced width, U64_MAX, so that saturation and     *)
(* counter overflow are states TLC reaches.                                *)
(*                                                                         *)
(* Spec is the sequential interface of count_min_sketch.rs; SpecMono is    *)
(* the same interface used by a caller that keeps an estimate and compares *)
(* it with a later one, as test_monotonicity does.  SpecPar and            *)
(* SpecQuery are the concurrent path that main.rs calls (store_parallel,   *)
(* count): its code is not in the source tree, so its steps follow         *)
(* sections 4.4, 4.5 and 5 of the specification.  SpecPar has several      *)
(* workers storing; SpecQuery has one worker storing and a thread querying.*)
(***************************************************************************)
EXTENDS Integers, FiniteSets, Sequences, TLC

\* ------------------------------------------------------------------ bounds
\* Largest value of a cell (u64::MAX in the code), at the model's width.
U64_MAX == 2
\* Largest width and depth a caller passes to new().
MaxWidth == 2
MaxDepth == 2
\* Largest digest a row's hasher returns (hasher.finish()).
MaxDigest == 1

\* usize::MAX: the counter is a usize, as wide as u64 on a 64-bit target.
USIZE_MAX == U64_MAX
\* Number of store calls a behaviour makes: enough to pass saturation.
MaxStores == U64_MAX + 2

\* Number of concurrent store calls a behaviour of SpecPar makes.
MaxParStores == U64_MAX + 1

Keys == {"a", "b"}
\* The worker threads that store concurrently.
Writers == {"w1", "w2"}
Digests == 0 .. MaxDigest
NoKey == "-"

VARIABLES
    phase,            \* "start": no sketch yet; "live": a sketch exists;
                      \* "rejected": the caller's NonZeroUsize unwrap panicked
    width,            \* CountMinSketch.width
    depth,            \* CountMinSketch.depth
    vec,              \* CountMinSketch.vec: row -> column -> cell
    hash_builders,    \* CountMinSketch.hash_builders: row -> key -> digest
    counter,          \* CountMinSketch.counter
    overflow_checks,  \* the build: TRUE when `+` panics on overflow (debug)
    last,             \* the last call: its name, key, result and outcome
    stored,           \* history: key -> store(key) calls that returned
    snap,             \* SpecMono: the last query, and the stores of its key since
    writers,          \* SpecPar: worker -> its position in a concurrent store
    reader,           \* SpecQuery: the querying thread's position and result
    incs,             \* SpecPar history: row -> column -> increments applied
    overlapped        \* SpecPar history: a store began while another was running

sketch == <<width, depth, vec, hash_builders, counter>>
seqVars == <<last, snap>>
parVars == <<writers, reader, incs, overlapped>>
vars == <<phase, width, depth, vec, hash_builders, counter, overflow_checks,
          last, stored, snap, writers, reader, incs, overlapped>>

Rows == 0 .. depth - 1
Cols == 0 .. width - 1

\* ---------------------------------------------------------------- helpers
\* u64::wrapping_add, what `+` is in a build without overflow checks.
wrapping_add(x, y) == (x + y) % (U64_MAX + 1)

\* u64::saturating_add
saturating_add(x, y) == IF x + y > U64_MAX THEN U64_MAX ELSE x + y

\* `self.counter += 1` overflows exactly when the counter is usize::MAX.
CounterOverflows(c) == c + 1 > USIZE_MAX

\* `self.counter += 1` in a build without overflow checks: two's complement.
WrappingIncrement(c) == (c + 1) % (USIZE_MAX + 1)

\* A dimension type that admits zero (a plain usize).
UncheckedUsizeNew(n) == "Some"

\* NonZeroUsize::new(n): None for zero.
NonZeroUsizeNew(n) == IF n = 0 THEN "None" ELSE "Some"

\* hash_with_seed as a bug would write it: the digest, not reduced.
hash_without_modulo(key, seed) == hash_builders[seed][key]

\* hash_with_seed: the row's digest of the key, reduced modulo width.
hash_with_seed(key, seed) == hash_builders[seed][key] % width

\* The assertion at the head of hash_with_seed.
SeedInRange(seed) == seed < depth

\* Row depth_index of v has a cell at the key's column: the index
\* expressions of store and the get(..).unwrap() of query succeed.
CellExists(v, key, depth_index) ==
    /\ SeedInRange(depth_index)
    /\ depth_index \in DOMAIN v
    /\ hash_with_seed(key, depth_index) \in DOMAIN v[depth_index]

\* Neither store(key) nor query(key) panics on an assertion or an index.
AccessOk(key) == \A d \in Rows : CellExists(vec, key, d)

\* The loop of store as a bug would write it: `1..self.depth`.
StoreLoopFromRowOne(v, key, depth_index) ==
    [r \in DOMAIN v |-> [c \in DOMAIN v[r] |->
        IF r >= 1 /\ c = hash_with_seed(key, r)
        THEN saturating_add(v[r][c], 1) ELSE v[r][c]]]

\* The loop of store: rows depth_index .. depth-1 of v, each incremented at
\* the key's column; a failed assertion or index ends the loop by a panic.
RECURSIVE StoreLoop(_, _, _)
StoreLoop(v, key, depth_index) ==
    IF depth_index >= depth \/ ~CellExists(v, key, depth_index) THEN v
    ELSE LET hash == hash_with_seed(key, depth_index)
             v2 == [v EXCEPT ![depth_index][hash] =
                        saturating_add(v[depth_index][hash], 1)]
         IN  StoreLoop(v2, key, depth_index + 1)

\* Iterator::min over a non-empty set of u64.
Min(S) == CHOOSE x \in S : \A y \in S : x <= y

\* query as a bug would write it: the first row's cell, no minimum.
QueryValueOfFirstRow(key) == vec[0][hash_with_seed(key, 0)]

\* query: the minimum over the rows of the key's cell.
QueryValue(key) == Min({vec[d][hash_with_seed(key, d)] : d \in Rows})

\* total_count
TotalCountValue == counter

\* History: the number of store calls, of any key, that returned.
RECURSIVE SumOver(_, _)
SumOver(f, S) ==
    IF S = {} THEN 0
    ELSE LET x == CHOOSE y \in S : TRUE IN f[x] + SumOver(f, S \ {x})

TotalStored == SumOver(stored, Keys)

\* ------------------------------------------------------------------- Init
\* A call as the caller sees it: the operation, its arguments, what it
\* returned, whether it panicked and whether its arithmetic wrapped.
Call(op, key, w, d, ret, panicked, wrapped) ==
    [op |-> op, key |-> key, w |-> w, d |-> d, ret |-> ret,
     panicked |-> panicked, wrapped |-> wrapped]

NoCall == Call("none", NoKey, 0, 0, 0, FALSE, FALSE)
NoSnap == [key |-> NoKey, q |-> 0, n |-> 0]

\* A worker between calls, and the querying thread between calls.
IdleWriter == [pc |-> "idle", key |-> NoKey, row |-> 0]
IdleReader == [pc |-> "idle", key |-> NoKey, row |-> 0, acc |-> 0, base |-> 0]

Init ==
    /\ phase = "start"
    /\ width = 0
    /\ depth = 0
    /\ vec = <<>>
    /\ hash_builders = <<>>
    /\ counter = 0
    /\ overflow_checks \in BOOLEAN
    /\ last = NoCall
    /\ stored = [k \in Keys |-> 0]
    /\ snap = NoSnap
    /\ writers = [t \in Writers |-> IdleWriter]
    /\ reader = IdleReader
    /\ incs = <<>>
    /\ overlapped = FALSE

\* ---------------------------------------------------------------- actions
\* The matrix as a bug would allocate it: cells starting at 1.
NewVecOfOnes(w, d) == [r \in 0 .. d - 1 |-> [c \in 0 .. w - 1 |-> 1]]

\* The matrix as a bug would allocate it: width rows of depth cells.
NewVecTransposed(w, d) == [r \in 0 .. w - 1 |-> [c \in 0 .. d - 1 |-> 0]]

\* The matrix new() allocates: vec![vec![0; width]; depth].
NewVec(w, d) == [r \in 0 .. d - 1 |-> [c \in 0 .. w - 1 |-> 0]]

\* A caller builds the dimensions with NonZeroUsize::new(n).unwrap() and
\* calls new(); a zero dimension panics in the unwrap, before new() runs.
New(w, d) ==
    /\ phase = "start"
    /\ IF NonZeroUsizeNew(w) = "None" \/ NonZeroUsizeNew(d) = "None"
       THEN /\ phase' = "rejected"
            /\ last' = Call("new", NoKey, w, d, 0, TRUE, FALSE)
            /\ UNCHANGED <<width, depth, vec, hash_builders, counter, incs>>
       ELSE /\ phase' = "live"
            /\ width' = w
            /\ depth' = d
            /\ vec' = NewVec(w, d)
            /\ hash_builders' \in [0 .. d - 1 -> [Keys -> Digests]]
            /\ counter' = 0
            /\ incs' = [r \in 0 .. d - 1 |-> [c \in 0 .. w - 1 |-> 0]]
            /\ last' = Call("new", NoKey, w, d, 0, FALSE, FALSE)
    /\ UNCHANGED <<overflow_checks, stored, snap, writers, reader, overlapped>>

\* store(key).  The counter is incremented first: with overflow checks the
\* increment of a counter at usize::MAX panics and nothing is written;
\* without them the counter wraps and the loop runs.
Store(key) ==
    /\ phase = "live"
    /\ TotalStored < MaxStores
    /\ IF CounterOverflows(counter) /\ overflow_checks
       THEN /\ last' = Call("store", key, 0, 0, 0, TRUE, FALSE)
            /\ UNCHANGED <<counter, vec, stored>>
       ELSE /\ counter' = WrappingIncrement(counter)
            /\ vec' = StoreLoop(vec, key, 0)
            /\ last' = Call("store", key, 0, 0, 0, ~AccessOk(key),
                            CounterOverflows(counter))
            /\ stored' = IF AccessOk(key)
                         THEN [stored EXCEPT ![key] = @ + 1] ELSE stored
    /\ UNCHANGED <<phase, width, depth, hash_builders, overflow_checks>>
    /\ UNCHANGED parVars

\* query(key) as a bug would write it: the query is counted as a store.
QueryCountsItself(key) ==
    /\ phase = "live"
    /\ counter' = WrappingIncrement(counter)
    /\ last' = Call("query", key, 0, 0, QueryValue(key), FALSE, FALSE)
    /\ UNCHANGED <<phase, width, depth, vec, hash_builders,
                   overflow_checks, stored>>
    /\ UNCHANGED parVars

\* query(key): a pure read; it panics when a row has no cell at the key's
\* column, and returns the minimum otherwise.
Query(key) ==
    /\ phase = "live"
    /\ last' = IF AccessOk(key)
               THEN Call("query", key, 0, 0, QueryValue(key), FALSE, FALSE)
               ELSE Call("query", key, 0, 0, 0, TRUE, FALSE)
    /\ UNCHANGED <<phase, width, depth, vec, hash_builders, counter,
                   overflow_checks, stored>>
    /\ UNCHANGED parVars

\* total_count()
TotalCount ==
    /\ phase = "live"
    /\ last' = Call("total_count", NoKey, 0, 0, TotalCountValue, FALSE, FALSE)
    /\ UNCHANGED <<phase, width, depth, vec, hash_builders, counter,
                   overflow_checks, stored, snap>>
    /\ UNCHANGED parVars

\* store(key) as a function of the matrix v and the counter c it is called
\* on: the matrix and the counter it leaves.  A store that panics on the
\* counter leaves both as they were.
StoreOn(v, c, key) ==
    IF CounterOverflows(c) /\ overflow_checks
    THEN <<v, c>>
    ELSE <<StoreLoop(v, key, 0), WrappingIncrement(c)>>

\* A caller that keeps nothing between its calls.
StoreCall(key) == Store(key) /\ UNCHANGED snap
QueryCall(key) == Query(key) /\ UNCHANGED snap

Next ==
    \/ \E w \in 0 .. MaxWidth, d \in 0 .. MaxDepth : New(w, d)
    \/ \E key \in Keys : StoreCall(key)
    \/ \E key \in Keys : QueryCall(key)
    \/ TotalCount

Spec == Init /\ [][Next]_vars

\* ------------------------------------------- a caller that compares queries
\* The caller of test_monotonicity: it keeps the estimate of a key, stores,
\* and compares the next estimate with the one it kept.  snap is what it
\* keeps: the key, the estimate, and the stores of the key that returned
\* since.
QueryAndKeep(key) ==
    /\ Query(key)
    /\ snap' = IF last'.panicked THEN snap
               ELSE [key |-> key, q |-> last'.ret, n |-> 0]

StoreAndCount(key) ==
    /\ Store(key)
    /\ snap' = IF snap.key = key /\ stored'[key] # stored[key]
               THEN [snap EXCEPT !.n = @ + 1] ELSE snap

NextMono ==
    \/ \E w \in 0 .. MaxWidth, d \in 0 .. MaxDepth : New(w, d)
    \/ \E key \in Keys : StoreAndCount(key)
    \/ \E key \in Keys : QueryAndKeep(key)

SpecMono == Init /\ [][NextMono]_vars

\* ------------------------------------------------- concurrent store path
\* The atomic increment as the variant the specification's section 9
\* reports: the post-increment value added to itself.
DoublingIncrement(x) == saturating_add(x + 1, x + 1)

\* Section 4.4: the atomic saturating increment of one cell.
AtomicSaturatingIncrement(x) == saturating_add(x, 1)

\* A store that returns after its first row.
ReturnsAfterFirstRow(row) == TRUE

\* Section 4.3: a store has updated every row once it has done row depth-1.
IsLastRow(row) == row = depth - 1

\* A worker calls the concurrent store: total_stores is incremented
\* atomically (section 4.4) and the row updates are still to come.
StoreParallelBegin(t, key) ==
    /\ phase = "live"
    /\ writers[t].pc = "idle"
    /\ counter < MaxParStores
    /\ counter' = counter + 1
    /\ writers' = [writers EXCEPT ![t] = [pc |-> "rows", key |-> key, row |-> 0]]
    /\ overlapped' = (overlapped \/ \E u \in Writers : writers[u].pc = "rows")
    /\ UNCHANGED <<phase, width, depth, vec, hash_builders, overflow_checks,
                   stored, reader, incs>>
    /\ UNCHANGED seqVars

\* One row of a concurrent store: the atomic read-modify-write of the
\* key's cell in that row (sections 4.4 and 5: each row increment is its
\* own atomic unit, no lock spans the rows).  After the last row the call
\* returns.
StoreParallelRow(t) ==
    /\ phase = "live"
    /\ writers[t].pc = "rows"
    /\ LET r == writers[t].row
           c == hash_with_seed(writers[t].key, r)
       IN  /\ vec' = [vec EXCEPT ![r][c] = AtomicSaturatingIncrement(@)]
           /\ incs' = [incs EXCEPT ![r][c] = @ + 1]
           /\ IF IsLastRow(r)
              THEN /\ writers' = [writers EXCEPT ![t] = IdleWriter]
                   /\ stored' = [stored EXCEPT ![writers[t].key] = @ + 1]
              ELSE /\ writers' = [writers EXCEPT ![t].row = r + 1]
                   /\ UNCHANGED stored
    /\ UNCHANGED <<phase, width, depth, hash_builders, counter,
                   overflow_checks, reader, overlapped>>
    /\ UNCHANGED seqVars

\* The querying thread calls query: `base` records the store(key) calls
\* that had returned when the call began.
QueryParallelBegin(key) ==
    /\ phase = "live"
    /\ reader.pc \in {"idle", "returned"}
    /\ reader' = [pc |-> "reading", key |-> key, row |-> 0, acc |-> U64_MAX,
                  base |-> stored[key]]
    /\ UNCHANGED <<phase, width, depth, vec, hash_builders, counter,
                   overflow_checks, stored, writers, incs, overlapped>>
    /\ UNCHANGED seqVars

\* One row of a query: the atomic read of the key's cell in that row,
\* folded into the minimum (section 4.5).  After the last row the call
\* returns the minimum, kept in acc.
QueryParallelRow ==
    /\ phase = "live"
    /\ reader.pc = "reading"
    /\ LET r == reader.row
           x == vec[r][hash_with_seed(reader.key, r)]
           m == Min({reader.acc, x})
       IN  reader' = IF r = depth - 1
                     THEN [reader EXCEPT !.pc = "returned", !.acc = m]
                     ELSE [reader EXCEPT !.row = r + 1, !.acc = m]
    /\ UNCHANGED <<phase, width, depth, vec, hash_builders, counter,
                   overflow_checks, stored, writers, incs, overlapped>>
    /\ UNCHANGED seqVars

\* The concurrent path has no arithmetic that the build's overflow checks
\* reach: the build is fixed.
InitPar == Init /\ overflow_checks = FALSE

\* Several workers storing into one shared sketch (main.rs: par_iter).
NextPar ==
    \/ \E w \in 0 .. MaxWidth, d \in 0 .. MaxDepth : New(w, d)
    \/ \E t \in Writers, key \in Keys : StoreParallelBegin(t, key)
    \/ \E t \in Writers : StoreParallelRow(t)

SpecPar == InitPar /\ [][NextPar]_vars

\* The worker that stores while the querying thread queries.
Storer == CHOOSE t \in Writers : TRUE

\* One worker storing into a shared sketch while another thread queries it.
NextQuery ==
    \/ \E w \in 0 .. MaxWidth, d \in 0 .. MaxDepth : New(w, d)
    \/ \E key \in Keys : StoreParallelBegin(Storer, key)
    \/ StoreParallelRow(Storer)
    \/ \E key \in Keys : QueryParallelBegin(key)
    \/ QueryParallelRow

SpecQuery == InitPar /\ [][NextQuery]_vars

\* ------------------------------------------------------------- properties
Live == phase = "live"

\* Two keys collide in every row.
CollideEverywhere(j, k) ==
    j # k /\ \A r \in Rows : hash_with_seed(j, r) = hash_with_seed(k, r)

C3_TotalCountMatchesCalls ==
    Live => TotalCountValue = TotalStored

\* C4 (as stated): once a key has been stored u64::MAX times or more its
\* query is u64::MAX (no cell wrapped), and no store of it panics.
C4_SaturationNoPanic ==
    Live => /\ \A k \in Keys : stored[k] >= U64_MAX => QueryValue(k) = U64_MAX
            /\ ~(last.op = "store" /\ counter = USIZE_MAX /\ last.panicked)

C6_ZeroAtConstruction ==
    (Live /\ last.op = "new") =>
        /\ \A r \in Rows : \A c \in Cols : vec[r][c] = 0
        /\ \A k \in Keys : QueryValue(k) = 0
        /\ TotalCountValue = 0

\* C6 witness: a sketch of the largest dimensions, just constructed.
C6_Witness ==
    Live /\ last.op = "new" /\ width = MaxWidth /\ depth = MaxDepth

\* C7: a construction with a zero width or depth fails at the construction
\* itself and leaves no sketch; every sketch that exists has width >= 1 and
\* depth >= 1 and was given non-zero dimensions.
C7_ZeroDimensionRejected ==
    /\ (last.op = "new" /\ (last.w = 0 \/ last.d = 0)) =>
           (phase = "rejected" /\ last.panicked)
    /\ phase = "rejected" => (last.op = "new" /\ depth = 0 /\ vec = <<>>)
    /\ Live => (width >= 1 /\ depth >= 1)

\* C7 witness: new(0, d) with d > 0 was attempted and rejected.
C7_Witness ==
    phase = "rejected" /\ last.op = "new" /\ last.w = 0 /\ last.d > 0

\* C8 (as stated): no store or query panics, and no arithmetic of a store
\* wraps.
C8_StoreQueryInfallible ==
    last.op \in {"store", "query"} => (~last.panicked /\ ~last.wrapped)

\* C9: a query or total_count step changes no field of the sketch, and a
\* call repeated right after itself returns the same value.
C9_ReadsArePure ==
    [][last'.op \in {"query", "total_count"} =>
          /\ UNCHANGED sketch
          /\ (last.op = last'.op /\ last.key = last'.key) => last'.ret = last.ret
          /\ last'.op = "query" => last'.ret = QueryValue(last'.key)
          /\ last'.op = "total_count" => last'.ret = TotalCountValue]_vars

\* C9 witness: a query returned a non-zero estimate of a stored sketch.
C9_Witness ==
    Live /\ last.op = "query" /\ last.ret >= 1 /\ counter >= 1

\* Every concurrent store that was issued has returned.
Quiescent == Live /\ \A t \in Writers : writers[t].pc = "idle"

C10_ConcurrentQueryLowerBound ==
    reader.pc = "returned" => reader.acc >= reader.base

\* C10 (amended): a query that ran concurrently with stores returns at
\* least the number of store(k) calls that had returned when it began, or
\* the maximum when more had.
C10_ConcurrentQueryLowerBoundUpToSaturation ==
    reader.pc = "returned" => reader.acc >= Min({reader.base, U64_MAX})

\* C10 witness: a query of k returned while a store of k had incremented
\* some rows and not yet the others, after a store of k had returned.
C10_Witness ==
    /\ reader.pc = "returned" /\ reader.base >= 1 /\ depth > 1
    /\ \E t \in Writers : /\ writers[t].pc = "rows"
                          /\ writers[t].key = reader.key
                          /\ writers[t].row >= 1

\* The last call was a store that returned.
StoreReturned(call) == call.op = "store" /\ ~call.panicked

\* C11 (as stated): a store(key) that returns adds exactly 1 to the cell at
\* the key's column in every row, or leaves it at u64::MAX, leaves every
\* other cell unchanged, and adds 1 to the store counter.
C11_StoreEffect ==
    [][StoreReturned(last') =>
          /\ \A r \in Rows : \A c \in Cols :
                 vec'[r][c] = IF c = hash_builders[r][last'.key] % width
                              THEN (IF vec[r][c] = U64_MAX THEN U64_MAX
                                    ELSE vec[r][c] + 1)
                              ELSE vec[r][c]
          /\ counter' = counter + 1]_vars

\* C12: query(key) returns a value that is the key's cell in some row and
\* is not above the key's cell in any row; with one row it returns that
\* row's cell.
C12_QueryIsMinimum ==
    (Live /\ last.op = "query") =>
        /\ ~last.panicked
        /\ \E r \in Rows : last.ret = vec[r][hash_with_seed(last.key, r)]
        /\ \A r \in Rows : last.ret <= vec[r][hash_with_seed(last.key, r)]
        /\ depth = 1 => last.ret = vec[0][hash_with_seed(last.key, 0)]

\* C12 witness: a query of a key whose cells differ between two rows, the
\* first row holding the larger one.
C12_Witness ==
    /\ Live /\ last.op = "query" /\ depth > 1
    /\ vec[0][hash_with_seed(last.key, 0)] > last.ret

\* C13: in every step each cell of the matrix is at least what it was, and
\* a cell at u64::MAX stays at u64::MAX.
C13_CellsNeverDecrease ==
    [][Live => \A r \in Rows : \A c \in Cols :
                  /\ vec'[r][c] >= vec[r][c]
                  /\ vec[r][c] = U64_MAX => vec'[r][c] = U64_MAX]_vars

\* C13 witness: a store returned on a cell that more than u64::MAX stores
\* have hit; the cell is at u64::MAX.
C13_Witness ==
    /\ Live /\ StoreReturned(last)
    /\ stored[last.key] > U64_MAX
    /\ \A r \in Rows : vec[r][hash_with_seed(last.key, r)] = U64_MAX

\* C14: a sketch has the width and depth given to new(), both at least 1,
\* depth rows of width cells and depth row hashers; no step changes the
\* width, the depth, the shape of the matrix or a hasher.
C14_DimensionsFixed ==
    [][/\ Live' =>
             /\ width' >= 1 /\ depth' >= 1
             /\ DOMAIN vec' = 0 .. depth' - 1
             /\ \A r \in DOMAIN vec' : DOMAIN vec'[r] = 0 .. width' - 1
             /\ DOMAIN hash_builders' = 0 .. depth' - 1
       /\ (Live' /\ last'.op = "new") => (width' = last'.w /\ depth' = last'.d)
       /\ Live => /\ Live'
                  /\ width' = width /\ depth' = depth
                  /\ hash_builders' = hash_builders]_vars

\* C14 witness: a sketch whose width and depth differ, after stores of both
\* keys and a query.
C14_Witness ==
    /\ Live /\ width # depth /\ last.op = "query"
    /\ \A k \in Keys : stored[k] >= 1

\* The number of store calls that returned and whose key hashes to column
\* c in row r.
HitCount(r, c) ==
    SumOver(stored, {k \in Keys : hash_with_seed(k, r) = c})

\* No increment of a cell has been clamped at u64::MAX.
NoCellSaturated ==
    \A r \in Rows : \A c \in Cols : HitCount(r, c) <= U64_MAX

\* In row r no other key that was stored shares the column of k.
AloneInRow(k, r) ==
    \A j \in Keys \ {k} :
        stored[j] > 0 => hash_with_seed(j, r) # hash_with_seed(k, r)

\* C15 (as stated): while no cell has saturated, every cell equals the
\* number of stores whose key hashes to it, every row sums to
\* total_count(), and query(k) is the true count of k when k is alone in
\* its column in some row.
C15_ExactCellContents ==
    (Live /\ NoCellSaturated) =>
        /\ \A r \in Rows : \A c \in Cols : vec[r][c] = HitCount(r, c)
        /\ \A r \in Rows : SumOver(vec[r], Cols) = TotalCountValue
        /\ \A k \in Keys :
               (\E r \in Rows : AloneInRow(k, r)) => QueryValue(k) = stored[k]

\* C16 (as stated): query(k) <= total_count() for every key k.
C16_QueryAtMostTotalCount ==
    Live => \A k \in Keys : QueryValue(k) <= TotalCountValue

\* C17 (as stated): from every reachable state, store(a) then store(b)
\* leaves the same matrix and the same counter as store(b) then store(a).
C17_StoresCommute ==
    Live => \A a, b \in Keys :
        LET sa == StoreOn(vec, counter, a)
            sb == StoreOn(vec, counter, b)
        IN  StoreOn(sa[1], sa[2], b) = StoreOn(sb[1], sb[2], a)

\* C18: for every key and every row of a sketch the row index passes the
\* assertion of hash_with_seed, the column is in [0, width) and is a cell
\* of the row; no query panics, and a store panics on nothing but its
\* counter.
C18_ColumnInRange ==
    /\ Live => \A k \in Keys : \A r \in Rows :
           /\ SeedInRange(r)
           /\ hash_with_seed(k, r) >= 0 /\ hash_with_seed(k, r) < width
           /\ r \in DOMAIN vec /\ hash_with_seed(k, r) \in DOMAIN vec[r]
    /\ last.op = "query" => ~last.panicked
    /\ (last.op = "store" /\ last.panicked) =>
           (CounterOverflows(counter) /\ overflow_checks)

\* C18 witness: a stored key was queried in a sketch where one of its
\* digests is not below the width, so that the reduction changed it.
C18_Witness ==
    /\ Live /\ last.op = "query" /\ stored[last.key] >= 1
    /\ \E r \in Rows : hash_builders[r][last.key] >= width

====
